---- MODULE Spec2Model ----
(***************************************************************************)
(* AI Resume Analyzer (app/main.py, app/nlp_utils.py, app/file_utils.py,   *)
(* app/skills_data.py): the text helpers, the matching engine and the      *)
(* HTTP handlers, one call per behaviour.                                  *)
(*                                                                         *)
(* A Python str is a tuple of one-character strings, so that substring     *)
(* search, lowercasing, whitespace normalisation, sorting and joining are  *)
(* computed and not assumed.  An Optional value is <<>> (None) or <<v>>.   *)
(* A float is an exact rational: a percentage or score is an integer       *)
(* number of hundredths, the reported similarity an integer number of      *)
(* thousandths, the unrounded similarity a pair <<num, den>>.              *)
(***************************************************************************)
EXTENDS Integers, Sequences, FiniteSets, TLC

VARIABLES pc, op, args, ret, frame, tempFiles

vars == <<pc, op, args, ret, frame, tempFiles>>

(***************************************************************************)
(* Bounds of the model.                                                    *)
(***************************************************************************)
\* longest text handed to extract_skills / extract_years_of_experience, in pieces
MaxPieces == 3
\* longest resume or job text handed to the handlers, in phrases
MaxPairPieces == 1
\* the unrounded cosine similarity ranges over k / d, d <= SimDen
SimDen == 8
\* longest skill list handed to compute_skill_match
MaxListLen == 3
\* skill_match_pct handed to combine_scores: 100 * m / n with n <= MaxPctDen
MaxPctDen == 4
\* length of the random part of a temporary file name
TempNameLen == 2

(***************************************************************************)
(* Characters, in code point order (Python compares str by code point).    *)
(***************************************************************************)
Ascii ==
  <<"\t", "\n", "\r", " ", "#", "+", ",", "-", ".", "/",
    "0", "1", "2", "3", "4", "5", "6", "7", "8", "9", ":",
    "A", "B", "C", "D", "E", "F", "G", "H", "I", "J", "K", "L", "M",
    "N", "O", "P", "Q", "R", "S", "T", "U", "V", "W", "X", "Y", "Z", "_",
    "a", "b", "c", "d", "e", "f", "g", "h", "i", "j", "k", "l", "m",
    "n", "o", "p", "q", "r", "s", "t", "u", "v", "w", "x", "y", "z">>

Char == {Ascii[i] : i \in 1..Len(Ascii)}

Ord == [c \in Char |-> CHOOSE i \in 1..Len(Ascii) : Ascii[i] = c]

Whitespace == {"\t", "\n", "\r", " "}

DigitChars == {c \in Char : Ord[c] >= Ord["0"] /\ Ord[c] <= Ord["9"]}

UpperChars == {c \in Char : Ord[c] >= Ord["A"] /\ Ord[c] <= Ord["Z"]}

LowerChars == {c \in Char : Ord[c] >= Ord["a"] /\ Ord[c] <= Ord["z"]}

\* \w of the re module, on this alphabet
WordChars == DigitChars \cup UpperChars \cup LowerChars \cup {"_"}

IsDigit(c) == c \in DigitChars

DigitVal(c) == Ord[c] - Ord["0"]

IsWordChar(c) == c \in WordChars

LowerChar == [c \in Char |-> IF c \in UpperChars THEN Ascii[Ord[c] - Ord["A"] + Ord["a"]] ELSE c]

\* str.lower()
Lower(s) == [i \in 1..Len(s) |-> LowerChar[s[i]]]

\* str < str
StrLess(a, b) ==
  LET n    == IF Len(a) < Len(b) THEN Len(a) ELSE Len(b)
      diff == {i \in 1..n : a[i] # b[i]}
  IN  IF diff = {} THEN Len(a) < Len(b)
      ELSE LET k == CHOOSE i \in diff : \A j \in diff : i <= j
           IN  Ord[a[k]] < Ord[b[k]]

\* s.startswith(w, i - 1), 1-based
HasAt(s, i, w) == i + Len(w) - 1 <= Len(s) /\ SubSeq(s, i, i + Len(w) - 1) = w

\* w in s
Contains(s, w) == \E i \in 1..(Len(s) - Len(w) + 1) : s[i] = w[1] /\ HasAt(s, i, w)

\* s.endswith(w)
EndsWith(s, w) == Len(w) <= Len(s) /\ SubSeq(s, Len(s) - Len(w) + 1, Len(s)) = w

\* sorted(S) of a set of str
RECURSIVE sorted(_)
sorted(S) ==
  IF S = {} THEN <<>>
  ELSE LET m == CHOOSE x \in S : \A y \in S \ {x} : StrLess(x, y)
       IN  <<m>> \o sorted(S \ {m})

\* set(list)
set(l) == {l[i] : i \in 1..Len(l)}

\* sep.join(parts)
RECURSIVE join(_, _)
join(sep, parts) ==
  IF parts = <<>> THEN <<>>
  ELSE IF Len(parts) = 1 THEN parts[1]
  ELSE parts[1] \o sep \o join(sep, Tail(parts))

None == <<>>

Some(v) == <<v>>

Max(S) == CHOOSE x \in S : \A y \in S : y <= x

RECURSIVE Gcd(_, _)
Gcd(a, b) == IF b = 0 THEN a ELSE Gcd(b, a % b)

(***************************************************************************)
(* app/skills_data.py                                                      *)
(***************************************************************************)
CORE_SKILLS ==
  { <<"p","y","t","h","o","n">>, <<"j","a","v","a">>, <<"c">>, <<"c","+","+">>, <<"c","#">>, <<"j","a","v","a","s","c","r","i","p","t">>,
    <<"t","y","p","e","s","c","r","i","p","t">>, <<"g","o">>, <<"r","u","s","t">>, <<"p","h","p">>, <<"r">>, <<"s","q","l">>,
    <<"m","a","c","h","i","n","e"," ","l","e","a","r","n","i","n","g">>, <<"d","e","e","p"," ","l","e","a","r","n","i","n","g">>, <<"n","l","p">>,
    <<"d","a","t","a"," ","a","n","a","l","y","s","i","s">>, <<"d","a","t","a"," ","a","n","a","l","y","t","i","c","s">>, <<"d","a","t","a"," ","e","n","g","i","n","e","e","r","i","n","g">>,
    <<"s","t","a","t","i","s","t","i","c","s">>, <<"e","d","a">>, <<"c","o","m","p","u","t","e","r"," ","v","i","s","i","o","n">>,
    <<"p","a","n","d","a","s">>, <<"n","u","m","p","y">>, <<"s","c","i","k","i","t","-","l","e","a","r","n">>, <<"t","e","n","s","o","r","f","l","o","w">>, <<"p","y","t","o","r","c","h">>,
    <<"m","a","t","p","l","o","t","l","i","b">>, <<"s","e","a","b","o","r","n">>,
    <<"m","y","s","q","l">>, <<"p","o","s","t","g","r","e","s","q","l">>, <<"m","o","n","g","o","d","b">>, <<"r","e","d","i","s">>,
    <<"a","w","s">>, <<"a","z","u","r","e">>, <<"g","c","p">>, <<"d","o","c","k","e","r">>, <<"k","u","b","e","r","n","e","t","e","s">>,
    <<"c","i","/","c","d">>, <<"g","i","t">>, <<"g","i","t","h","u","b">>,
    <<"p","r","o","b","l","e","m"," ","s","o","l","v","i","n","g">>, <<"t","e","a","m","w","o","r","k">>, <<"c","o","m","m","u","n","i","c","a","t","i","o","n">>,
    <<"l","e","a","d","e","r","s","h","i","p">>, <<"a","p","i"," ","d","e","v","e","l","o","p","m","e","n","t">>, <<"r","e","s","t"," ","a","p","i">> }

\* a vocabulary without its one-letter entries
get_all_skills_WordsMut == {Lower(skill) : skill \in {s \in CORE_SKILLS : Len(s) > 1}}

\* {skill.lower() for skill in CORE_SKILLS}
get_all_skills == {Lower(skill) : skill \in CORE_SKILLS}

(***************************************************************************)
(* app/nlp_utils.py                                                        *)
(***************************************************************************)
SKILL_SET == get_all_skills

\* text.replace("\r", " ").replace("\n", " ")
ReplaceNewlines(text) ==
  [i \in 1..Len(text) |-> IF text[i] \in {"\r", "\n"} THEN " " ELSE text[i]]

\* re.sub(r"\s+", " ", text): every run of whitespace becomes one space (the
\* first character of the run is replaced, the others are dropped)
CollapseWhitespace(text) ==
  LET marked == [i \in 1..Len(text) |->
                   IF text[i] \notin Whitespace THEN text[i]
                   ELSE IF i > 1 /\ text[i - 1] \in Whitespace THEN "" ELSE " "]
  IN  SelectSeq(marked, LAMBDA c : c # "")

\* str.strip()
Strip(s) ==
  LET ink == {i \in 1..Len(s) : s[i] \notin Whitespace}
  IN  IF ink = {} THEN <<>>
      ELSE SubSeq(s, CHOOSE i \in ink : \A j \in ink : i <= j,
                     CHOOSE i \in ink : \A j \in ink : j <= i)

clean_text(text) ==
  IF text = <<>> THEN <<>>
  ELSE Strip(CollapseWhitespace(ReplaceNewlines(text)))

\* nlp(text_norm): the spaCy tokenizer cuts the text, without changing it, at
\* whitespace and around punctuation; token.text is a slice of the text
Punctuation == {",", ".", ":"}

IsCut(s, i) == i < 1 \/ i > Len(s) \/ s[i] \in Whitespace \/ s[i] \in Punctuation

\* the position after the token that starts at i
TokenEnd(s, i) == CHOOSE j \in (i + 1)..(Len(s) + 1) :
                    IsCut(s, j) /\ \A k \in i..(j - 1) : ~IsCut(s, k)

Tokenize(s) ==
  {<<s[i]>> : i \in {k \in 1..Len(s) : s[k] \in Punctuation}}
  \cup {SubSeq(s, i, TokenEnd(s, i) - 1) :
          i \in {k \in 1..Len(s) : ~IsCut(s, k) /\ IsCut(s, k - 1)}}

\* {token.text for token in nlp(text_norm)}
nlp_tokens(text_norm) == Tokenize(text_norm)

\* a word-boundary aware matcher
extract_skills_WordMut(text) ==
  IF text = <<>> THEN <<>>
  ELSE sorted(SKILL_SET \cap Tokenize(Lower(clean_text(text))))

extract_skills(text) ==
  IF text = <<>> THEN <<>>
  ELSE LET text_norm == Lower(clean_text(text))
           phrase    == {skill \in SKILL_SET : Contains(text_norm, skill)}
           tokens    == nlp_tokens(text_norm)
           token     == {skill \in SKILL_SET : ~Contains(skill, <<" ">>) /\ skill \in tokens}
       IN  sorted(phrase \cup token)

\* \s*: the position after the whitespace at i
RECURSIVE SkipWhitespace(_, _)
SkipWhitespace(s, i) ==
  IF i <= Len(s) /\ s[i] \in Whitespace THEN SkipWhitespace(s, i + 1) ELSE i

\* (years|year|yrs) at i: the length matched, the alternatives tried in order
YearWordAt(s, i) ==
  IF HasAt(s, i, <<"y","e","a","r","s">>) THEN 5
  ELSE IF HasAt(s, i, <<"y","e","a","r">>) THEN 4
  ELSE IF HasAt(s, i, <<"y","r","s">>) THEN 3
  ELSE 0

\* \+?: the position after the plus sign at i, if there is one
SkipPlus(s, i) == IF i <= Len(s) /\ s[i] = "+" THEN i + 1 ELSE i

\* (years|year|yrs) at w closes a match of value: <<>> or <<value, end>>
YearsMatchEnd(s, value, w) ==
  IF YearWordAt(s, w) > 0 THEN <<value, w + YearWordAt(s, w)>> ELSE <<>>

\* r"(\d{1,2})\s*\+?\s*(years|year|yrs)" tried at i: <<>> or <<int(group 1), end>>.
\* \d{1,2} and \s* are greedy; giving a digit or a space back never lets the rest
\* match (the rest would have to start with that digit or space), so the greedy
\* attempt decides.
YearsMatchAt(s, i) ==
  IF i > Len(s) \/ ~IsDigit(s[i]) THEN <<>>
  ELSE IF i + 1 <= Len(s) /\ IsDigit(s[i + 1])
    THEN YearsMatchEnd(s, 10 * DigitVal(s[i]) + DigitVal(s[i + 1]),
                       SkipWhitespace(s, SkipPlus(s, SkipWhitespace(s, i + 2))))
    ELSE YearsMatchEnd(s, DigitVal(s[i]),
                       SkipWhitespace(s, SkipPlus(s, SkipWhitespace(s, i + 1))))

Min(S) == CHOOSE x \in S : \A y \in S : x <= y

\* re.findall: leftmost matches, each search resuming where the last match ended;
\* the list of the int(m[0])
RECURSIVE FindAllYears(_, _)
FindAllFrom(s, starts) ==
  IF starts = {} THEN <<>>
  ELSE <<YearsMatchAt(s, Min(starts))[1]>> \o FindAllYears(s, YearsMatchAt(s, Min(starts))[2])

FindAllYears(s, i) == FindAllFrom(s, {k \in i..Len(s) : YearsMatchAt(s, k) # <<>>})

\* the first figure of the text instead of the largest
YearsOfMatchesFirstMut(matches) ==
  IF matches = <<>> THEN None ELSE Some(matches[1])

\* return None if not matches, else max(int(m[0]) for m in matches)
YearsOfMatches(matches) ==
  IF matches = <<>> THEN None ELSE Some(Max({matches[k] : k \in 1..Len(matches)}))

extract_years_of_experience(text) ==
  IF text = <<>> THEN None
  ELSE YearsOfMatches(FindAllYears(Lower(clean_text(text)), 1))

build_resume_profile(text) ==
  [skills |-> extract_skills(text),
   years_of_experience |-> extract_years_of_experience(text)]

build_job_profile(text) == [required_skills |-> extract_skills(text)]

(***************************************************************************)
(* Floats as exact rationals <<num, den>>, den > 0, kept in lowest terms.  *)
(***************************************************************************)
Rat(n, d) == LET g == Gcd(n, d) IN IF g = 0 THEN <<0, 1>> ELSE <<n \div g, d \div g>>

RatMul(a, b) ==
  LET x == Rat(a[1], b[2])
      y == Rat(b[1], a[2])
  IN  Rat(x[1] * y[1], x[2] * y[2])

RatAdd(a, b) == Rat(a[1] * b[2] + b[1] * a[2], a[2] * b[2])

\* the value is k / 2^j: a binary float holds it exactly
IsDyadic(a) == \E j \in 0..30 : a[2] = 2 ^ j

\* round(x, ndigits), in units of 10^-ndigits.  Python rounds the float it is
\* given correctly, to even on a tie.  A float that is exactly the product or
\* quotient it stands for (exact) and sits on a tie is rounded to even; a
\* decimal tie that no binary float holds, or one reached through inexact
\* operations, falls to whichever side the rounding errors left it on.
PyRound(x, ndigits, exact) ==
  LET s == RatMul(x, <<10 ^ ndigits, 1>>)
      q == s[1] \div s[2]
      r == s[1] % s[2]
  IN  IF 2 * r < s[2] THEN {q}
      ELSE IF 2 * r > s[2] THEN {q + 1}
      ELSE IF exact /\ IsDyadic(x) THEN {IF q % 2 = 0 THEN q ELSE q + 1}
      ELSE {q, q + 1}

(***************************************************************************)
(* app/file_utils.py                                                       *)
(***************************************************************************)
\* str(e) of what pdfplumber and python-docx raise on a file of another format
PdfSyntaxError == <<"N","o"," ","/","R","o","o","t"," ","o","b","j","e","c","t">>

PackageNotFoundError == <<"P","a","c","k","a","g","e"," ","n","o","t"," ","f","o","u","n",
                          "d">>

UnsupportedFileType == <<"U","n","s","u","p","p","o","r","t","e","d"," ","f","i","l","e",
                         " ","t","y","p","e","."," ","P","l","e","a","s","e"," ","u","p",
                         "l","o","a","d"," ","a"," ","P","D","F"," ","o","r"," ","D","O",
                         "C","X"," ","r","e","s","u","m","e",".">>

Returned(v) == [exc |-> "", value |-> v]

Raised(kind, message) == [exc |-> kind, value |-> message]

\* text += (page.extract_text() or "") + "\n", page by page
RECURSIVE PagesText(_)
PagesText(pages) ==
  IF pages = <<>> THEN <<>>
  ELSE (IF pages[1] = None THEN <<>> ELSE pages[1][1]) \o <<"\n">> \o PagesText(Tail(pages))

extract_text_from_pdf(file) ==
  IF file.format # "pdf" THEN Raised("PDFSyntaxError", PdfSyntaxError)
  ELSE Returned(PagesText(file.parts))

extract_text_from_docx(file) ==
  IF file.format # "docx" THEN Raised("PackageNotFoundError", PackageNotFoundError)
  ELSE Returned(join(<<"\n">>, [k \in 1..Len(file.parts) |->
                                  IF file.parts[k] = None THEN <<>> ELSE file.parts[k][1]]))

\* file is what is stored at file_path
extract_text(file_path, file) ==
  LET path_lower == Lower(file_path)
  IN  IF EndsWith(path_lower, <<".","p","d","f">>) THEN extract_text_from_pdf(file)
      ELSE IF EndsWith(path_lower, <<".","d","o","c","x">>) THEN extract_text_from_docx(file)
      ELSE Raised("ValueError", UnsupportedFileType)

(***************************************************************************)
(* app/main.py: helper functions                                           *)
(***************************************************************************)
\* stop_words="english": the words of scikit-learn's list that the texts of
\* this model can hold
StopWords == { <<"t","h","e">>, <<"a","n","d">>, <<"o","f">>, <<"i","n">>, <<"f","o","r">>, <<"w","i","t","h">>, <<"h","a","v","e">>, <<"a">>, <<"i">> }

\* the maximal runs of word characters of s, in order
RunEnd(s, i) == CHOOSE j \in i..Len(s) :
                  (j = Len(s) \/ ~IsWordChar(s[j + 1])) /\ \A k \in i..j : IsWordChar(s[k])

NthOf(S, k) == CHOOSE i \in S : Cardinality({j \in S : j < i}) = k - 1

RunsFrom(s, starts) ==
  [k \in 1..Cardinality(starts) |-> SubSeq(s, NthOf(starts, k), RunEnd(s, NthOf(starts, k)))]

\* token_pattern r"(?u)\b\w\w+\b": the runs of two word characters or more
WordRuns(s) ==
  SelectSeq(RunsFrom(s, {i \in 1..Len(s) : IsWordChar(s[i]) /\ (i = 1 \/ ~IsWordChar(s[i - 1]))}),
            LAMBDA w : Len(w) >= 2)

\* the analyzer of TfidfVectorizer: lowercase, tokenize, drop the stop words
Analyze(text) == SelectSeq(WordRuns(Lower(text)), LAMBDA w : w \notin StopWords)

\* ngram_range=(1, 2): the terms and the pairs of neighbouring terms
Features(tokens) ==
  {<<tokens[k]>> : k \in 1..Len(tokens)}
  \cup {<<tokens[k], tokens[k + 1]>> : k \in 1..(Len(tokens) - 1)}

max_features == 5000

\* the values a cosine of two non-orthogonal vectors may take: the fractions in (0, 1]
PositiveCosines == {f \in (1..SimDen) \X (1..SimDen) : f[1] <= f[2] /\ Gcd(f[1], f[2]) = 1}

\* vectorizer.fit_transform([resume_clean, job_clean]) and cosine_similarity of
\* the two rows, from the terms of each document.  fit_transform raises
\* ValueError("empty vocabulary; perhaps the documents only contain stop words")
\* when no document keeps a term.  The cosine of the two tf-idf rows is 0 when they
\* share no feature and 1 when the documents give the same terms; otherwise it is
\* an irrational, which the model replaces by every fraction in (0, 1] with a
\* denominator up to SimDen.  Above max_features the vectorizer drops features,
\* shared ones perhaps.
TfidfCosine(resume_tokens, job_tokens) ==
  IF Features(resume_tokens) \cup Features(job_tokens) = {}
    THEN {Raised("ValueError",
                 <<"e","m","p","t","y"," ","v","o","c","a","b","u","l","a","r","y",
                   ";"," ","p","e","r","h","a","p","s"," ","t","h","e"," ","d","o",
                   "c","u","m","e","n","t","s"," ","o","n","l","y"," ","c","o","n",
                   "t","a","i","n"," ","s","t","o","p"," ","w","o","r","d","s">>)}
  ELSE IF Cardinality(Features(resume_tokens) \cup Features(job_tokens)) > max_features
    THEN {Returned(<<0, 1>>)} \cup {Returned(f) : f \in PositiveCosines}
  ELSE IF Features(resume_tokens) \cap Features(job_tokens) = {} THEN {Returned(<<0, 1>>)}
  ELSE IF resume_tokens = job_tokens THEN {Returned(<<1, 1>>)}
  ELSE {Returned(f) : f \in PositiveCosines}

\* if not resume_clean or not job_clean: return 0.0, else the cosine
SimilarityOfClean(resume_clean, job_clean) ==
  IF resume_clean = <<>> \/ job_clean = <<>> THEN {Returned(<<0, 1>>)}
  ELSE TfidfCosine(Analyze(resume_clean), Analyze(job_clean))

\* The outcomes of the call: a float, or the exception it raises.
compute_text_similarity(resume_text, job_text) ==
  SimilarityOfClean(clean_text(resume_text), clean_text(job_text))

\* a matcher with the two differences taken the wrong way round
compute_skill_match_SwapMut(resume_skills, job_skills) ==
  LET resume_set == set(resume_skills)
      job_set    == set(job_skills)
  IN  [matched_skills      |-> sorted(resume_set \cap job_set),
       missing_skills      |-> sorted(resume_set \ job_set),
       extra_resume_skills |-> sorted(job_set \ resume_set)]

compute_skill_match(resume_skills, job_skills) ==
  LET resume_set == set(resume_skills)
      job_set    == set(job_skills)
  IN  [matched_skills      |-> sorted(resume_set \cap job_set),
       missing_skills      |-> sorted(job_set \ resume_set),
       extra_resume_skills |-> sorted(resume_set \ job_set)]

\* weights that do not bring the percentage back to [0, 1]
combine_scores_NoNormMut(text_sim, skill_match_pct) ==
  LET skill_norm == Rat(skill_match_pct, 100)
      combined   == RatAdd(RatMul(<<6, 10>>, skill_norm), RatMul(<<4, 10>>, text_sim))
  IN  PyRound(RatMul(combined, <<100, 1>>), 2, FALSE)

\* the weights exchanged
combine_scores_WeightsMut(text_sim, skill_match_pct) ==
  LET skill_norm == Rat(skill_match_pct, 100 * 100)
      combined   == RatAdd(RatMul(<<4, 10>>, skill_norm), RatMul(<<6, 10>>, text_sim))
  IN  PyRound(RatMul(combined, <<100, 1>>), 2, FALSE)

\* skill_match_pct in hundredths; the result in hundredths, as a set: 0.6 and 0.4
\* are not binary floats, so a decimal tie may be rounded either way
combine_scores(text_sim, skill_match_pct) ==
  LET skill_norm == Rat(skill_match_pct, 100 * 100)
      combined   == RatAdd(RatMul(<<6, 10>>, skill_norm), RatMul(<<4, 10>>, text_sim))
  IN  PyRound(RatMul(combined, <<100, 1>>), 2, FALSE)

\* a percentage that rewards a job without requirements
skill_match_percentage_FullMut(matched_skills, job_skills) ==
  IF job_skills # <<>>
    THEN PyRound(Rat(100 * Len(matched_skills), Len(job_skills)), 2, TRUE)
    ELSE {100 * 100}

\* run_analysis, "Skill match percentage": in hundredths
skill_match_percentage(matched_skills, job_skills) ==
  IF job_skills # <<>>
    THEN PyRound(Rat(100 * Len(matched_skills), Len(job_skills)), 2, TRUE)
    ELSE {0}

MissingPrefix == <<"C","o","n","s","i","d","e","r"," ","l","e","a","r","n","i","n",
                   "g"," ","o","r"," ","e","x","p","l","i","c","i","t","l","y"," ",
                   "m","e","n","t","i","o","n","i","n","g"," ","t","h","e","s","e",
                   " ","s","k","i","l","l","s",":"," ">>

LowNote == <<"O","v","e","r","a","l","l"," ","m","a","t","c","h"," ","i","s",
             " ","l","o","w","."," ","Y","o","u"," ","m","a","y"," ","n","e",
             "e","d"," ","t","o"," ","t","a","i","l","o","r"," ","y","o","u",
             "r"," ","r","e","s","u","m","e"," ","m","o","r","e"," ","c","l",
             "o","s","e","l","y"," ","t","o"," ","t","h","i","s"," ","r","o",
             "l","e",".">>

DecentNote == <<"D","e","c","e","n","t"," ","m","a","t","c","h","."," ","H","i",
                "g","h","l","i","g","h","t"," ","k","e","y"," ","r","e","l","e",
                "v","a","n","t"," ","p","r","o","j","e","c","t","s"," ","a","n",
                "d"," ","s","k","i","l","l","s"," ","t","o"," ","s","t","r","e",
                "n","g","t","h","e","n"," ","y","o","u","r"," ","a","p","p","l",
                "i","c","a","t","i","o","n",".">>

StrongNote == <<"S","t","r","o","n","g"," ","m","a","t","c","h","."," ","E","n",
                "s","u","r","e"," ","y","o","u","r"," ","a","c","h","i","e","v",
                "e","m","e","n","t","s"," ","a","r","e"," ","q","u","a","n","t",
                "i","f","i","e","d"," ","a","n","d"," ","c","l","e","a","r","l",
                "y"," ","d","e","s","c","r","i","b","e","d",".">>

\* thresholds that are off by one at 50 and at 75
build_notes_BoundaryMut(skills_match, overall_score) ==
  LET missing == IF skills_match.missing_skills # <<>>
                   THEN <<MissingPrefix \o join(<<","," ">>, skills_match.missing_skills) \o <<".">>>>
                   ELSE <<>>
      tier    == IF overall_score <= 50 * 100 THEN <<LowNote>>
                 ELSE IF overall_score <= 75 * 100 THEN <<DecentNote>>
                 ELSE <<StrongNote>>
  IN  Some(join(<<" ">>, missing \o tier))

\* run_analysis, "Notes": overall_score in hundredths
build_notes(skills_match, overall_score) ==
  LET missing     == IF skills_match.missing_skills # <<>>
                       THEN <<MissingPrefix \o join(<<","," ">>, skills_match.missing_skills) \o <<".">>>>
                       ELSE <<>>
      tier        == IF overall_score < 50 * 100 THEN <<LowNote>>
                     ELSE IF overall_score < 75 * 100 THEN <<DecentNote>>
                     ELSE <<StrongNote>>
      notes_parts == missing \o tier
  IN  IF notes_parts # <<>> THEN Some(join(<<" ">>, notes_parts)) ELSE None

\* run_analysis from "Skill match percentage" on: the responses for one outcome
\* text_sim of compute_text_similarity
Responses(resume_profile, job_profile, skills_match, text_sim) ==
  UNION {UNION {
    {[exc      |-> "",
      text_sim |-> text_sim,
      value    |-> [overall_match_score    |-> overall_score,
                    skill_match_percentage |-> skill_match_pct,
                    text_similarity_score  |-> shown,
                    resume_profile         |-> resume_profile,
                    job_profile            |-> job_profile,
                    skills_match           |-> skills_match,
                    notes                  |-> build_notes(skills_match, overall_score)]] :
       shown \in PyRound(text_sim, 3, TRUE)} :
     overall_score \in combine_scores(text_sim, skill_match_pct)} :
     skill_match_pct \in skill_match_percentage(skills_match.matched_skills,
                                                job_profile.required_skills)}

\* run_analysis once the profiles are built and the similarity is in: sims are the
\* outcomes of compute_text_similarity, whose exception run_analysis lets through
AnalysisOf(resume_profile, job_profile, sims) ==
  {[exc |-> o.exc, value |-> o.value, text_sim |-> <<>>] : o \in {x \in sims : x.exc # ""}}
  \cup
  UNION {Responses(resume_profile, job_profile,
                   compute_skill_match(resume_profile.skills, job_profile.required_skills),
                   o.value) : o \in {x \in sims : x.exc = ""}}

\* The outcomes of run_analysis: the responses it may return, each with the
\* unrounded text_sim it was computed from, and the exception it may raise.
run_analysis(resume_text, job_description_text) ==
  AnalysisOf(build_resume_profile(resume_text),
             build_job_profile(job_description_text),
             compute_text_similarity(resume_text, job_description_text))

(***************************************************************************)
(* app/main.py: API endpoints                                              *)
(***************************************************************************)
\* tempfile.NamedTemporaryFile(delete=False): gettempdir() + "/tmp" + random
\* characters of "abcdefghijklmnopqrstuvwxyz0123456789_", no suffix
TempChars == {"d", "f", "_"}

RECURSIVE RandomNames(_)
RandomNames(n) ==
  IF n = 0 THEN {<<>>}
  ELSE {r \o <<c>> : r \in RandomNames(n - 1), c \in TempChars}

\* the names the call may give the file: any that is not taken
NamedTemporaryFile(file) == {<<"/","t","m","p","/","t","m","p">> \o r : r \in RandomNames(TempNameLen)} \ tempFiles

health_check ==
  /\ pc = "called" /\ op = "health_check"
  /\ pc' = "returned"
  /\ ret' = [status |-> <<"o","k">>, message |-> <<"A","P","I"," ","i","s"," ","r","u","n","n","i","n","g">>]
  /\ UNCHANGED <<op, args, frame, tempFiles>>

analyze_resume ==
  /\ pc = "called" /\ op = "analyze_resume"
  /\ \E out \in run_analysis(args.resume_text, args.job_description_text) :
       /\ pc' = IF out.exc = "" THEN "returned" ELSE "raised"
       /\ ret' = IF out.exc = "" THEN out.value ELSE [exc |-> out.exc, message |-> out.value]
       /\ frame' = [text_sim |-> out.text_sim]
  /\ UNCHANGED <<op, args, tempFiles>>

upload_resume ==
  /\ pc = "called" /\ op = "upload_resume"
  /\ \E name \in NamedTemporaryFile(args.file) :
       LET text == extract_text(name, args.file)
       IN  /\ tempFiles' = tempFiles \cup {name}
           /\ ret' = IF text.exc # "" THEN [error |-> text.value]
                     ELSE [extracted_text |-> text.value]
           /\ frame' = [temp |-> name]
  /\ pc' = "returned"
  /\ UNCHANGED <<op, args>>

upload_and_analyze_resume ==
  /\ pc = "called" /\ op = "upload_and_analyze_resume"
  /\ \E name \in NamedTemporaryFile(args.file) :
       LET resume_text == extract_text(name, args.file)
       IN  /\ tempFiles' = tempFiles \cup {name}
           /\ IF resume_text.exc # ""
                THEN /\ pc' = "returned"
                     /\ ret' = [extracted_text         |-> <<>>,
                                overall_match_score    |-> 0,
                                skill_match_percentage |-> 0,
                                text_similarity_score  |-> 0,
                                resume_profile         |-> <<>>,
                                job_profile            |-> <<>>,
                                skills_match           |-> [matched_skills      |-> <<>>,
                                                            missing_skills      |-> <<>>,
                                                            extra_resume_skills |-> <<>>],
                                notes |-> Some(<<"F","a","i","l","e","d"," ","t","o"," ","e","x","t","r","a","c",
                                                 "t"," ","r","e","s","u","m","e"," ","t","e","x","t",":"," ">>
                                               \o resume_text.value)]
                     /\ frame' = [temp |-> name]
                ELSE \E out \in run_analysis(resume_text.value, args.job_description_text) :
                       /\ pc' = IF out.exc = "" THEN "returned" ELSE "raised"
                       /\ ret' = IF out.exc # "" THEN [exc |-> out.exc, message |-> out.value]
                                 ELSE [extracted_text         |-> resume_text.value,
                                       overall_match_score    |-> out.value.overall_match_score,
                                       skill_match_percentage |-> out.value.skill_match_percentage,
                                       text_similarity_score  |-> out.value.text_similarity_score,
                                       resume_profile         |-> out.value.resume_profile,
                                       job_profile            |-> out.value.job_profile,
                                       skills_match           |-> out.value.skills_match,
                                       notes                  |-> out.value.notes]
                       /\ frame' = [temp |-> name, text_sim |-> out.text_sim]
  /\ UNCHANGED <<op, args>>

(***************************************************************************)
(* Direct calls of the module-level functions.                             *)
(***************************************************************************)
call_extract_skills ==
  /\ pc = "called" /\ op = "extract_skills"
  /\ pc' = "returned"
  /\ ret' = extract_skills(args.text)
  /\ UNCHANGED <<op, args, frame, tempFiles>>

call_extract_years_of_experience ==
  /\ pc = "called" /\ op = "extract_years_of_experience"
  /\ pc' = "returned"
  /\ ret' = extract_years_of_experience(args.text)
  /\ UNCHANGED <<op, args, frame, tempFiles>>

call_compute_skill_match ==
  /\ pc = "called" /\ op = "compute_skill_match"
  /\ pc' = "returned"
  /\ ret' = compute_skill_match(args.resume_skills, args.job_skills)
  /\ UNCHANGED <<op, args, frame, tempFiles>>

call_combine_scores ==
  /\ pc = "called" /\ op = "combine_scores"
  /\ pc' = "returned"
  /\ \E score \in combine_scores(args.text_sim, args.skill_match_pct) : ret' = score
  /\ UNCHANGED <<op, args, frame, tempFiles>>

(***************************************************************************)
(* The calls of the model.                                                 *)
(***************************************************************************)
\* every text made of up to n of the pieces
RECURSIVE Concats(_, _)
Concats(pieces, n) ==
  IF n = 0 THEN {<<>>}
  ELSE Concats(pieces, n - 1) \cup {t \o p : t \in Concats(pieces, n - 1), p \in pieces}

SkillPieces == { <<"r">>, <<"T","e","r","r","a","f","o","r","m">>, <<"S","Q","L">>, <<"r","e","s","t">>, <<"a","p","i">>, <<" ">>, <<"\t","\n">>, <<",">> }

YearPieces == { <<"5">>, <<"1","2">>, <<"+">>, <<" ">>, <<" ","+">>, <<"y","r","s">>, <<"Y","e","a","r","s">>, <<"y","e","a","r">> }

ResumeScenario == <<"I"," ","h","a","v","e"," ","3"," ","y","e","a","r","s"," ","o",
                    "f"," ","e","x","p","e","r","i","e","n","c","e"," ","i","n"," ",
                    "p","y","t","h","o","n"," ","a","n","d"," ","s","q","l">>

JobScenario ==
  <<"L","o","o","k","i","n","g"," ","f","o","r"," ","a"," ","c","a",
    "n","d","i","d","a","t","e"," ","s","k","i","l","l","e","d"," ",
    "i","n"," ","p","y","t","h","o","n",","," ","s","q","l",","," ",
    "a","n","d"," ","a","w","s"," ","w","i","t","h"," ","2","+"," ",
    "y","e","a","r","s"," ","e","x","p","e","r","i","e","n","c","e">>

YearsScenario == <<"2"," ","y","e","a","r","s",".",".","."," ","l","a","t","e","r",
                   " ","5","+"," ","y","e","a","r","s">>

PairPieces == { <<" ","\n">>, <<"T","h","e"," ">>, <<"r"," ">>, <<"P","y","t","h","o","n"," ","S","Q","L"," ">>, <<"p","y","t","h","o","n"," ","s","q","l"," ","a","w","s"," ","g",
                                                          "i","t"," ">> }

PairTexts == {ResumeScenario, JobScenario} \cup Concats(PairPieces, MaxPairPieces)

ListSkills == { <<"a","w","s">>, <<"p","y","t","h","o","n">>, <<"s","q","l">> }

RECURSIVE Lists(_)
Lists(n) ==
  IF n = 0 THEN {<<>>}
  ELSE Lists(n - 1) \cup {l \o <<s>> : l \in Lists(n - 1), s \in ListSkills}

\* the percentages run_analysis can hand to combine_scores, in hundredths
Percentages ==
  UNION {PyRound(Rat(100 * m, n), 2, TRUE) : m \in 0..MaxPctDen, n \in 1..MaxPctDen}
  \cap 0..(100 * 100)

Uploads ==
  { [filename |-> <<"c","v",".","p","d","f">>,  format |-> "pdf",   parts |-> <<Some(<<"p","y","t","h","o","n"," ","s","q","l">>), None>>],
    [filename |-> <<"C","V",".","D","O","C","X">>, format |-> "docx",  parts |-> <<Some(<<"T","h","e">>), Some(<<"a","w","s">>)>>],
    [filename |-> <<"c","v",".","p","d","f">>,  format |-> "other", parts |-> <<>>],
    [filename |-> <<"c","v",".","t","x","t">>,  format |-> "other", parts |-> <<>>] }

Init ==
  /\ pc = "called"
  /\ ret = <<>>
  /\ frame = <<>>
  /\ tempFiles = {}
  /\ \/ op = "health_check" /\ args = <<>>
     \/ op = "analyze_resume"
        /\ args \in [resume_text : PairTexts, job_description_text : PairTexts]
     \/ op = "upload_resume" /\ args \in [file : Uploads]
     \/ op = "upload_and_analyze_resume"
        /\ args \in [file : Uploads, job_description_text : {JobScenario, <<"T","h","e"," ">>}]
     \/ op = "extract_skills"
        /\ args \in [text : Concats(SkillPieces, MaxPieces)]
     \/ op = "extract_years_of_experience"
        /\ args \in [text : Concats(YearPieces, MaxPieces) \cup {YearsScenario}]
     \/ op = "compute_skill_match"
        /\ args \in [resume_skills : Lists(MaxListLen), job_skills : Lists(MaxListLen)]
     \/ op = "combine_scores"
        /\ args \in [text_sim : {<<0, 1>>} \cup PositiveCosines, skill_match_pct : Percentages]

Next ==
  \/ health_check
  \/ analyze_resume
  \/ upload_resume
  \/ upload_and_analyze_resume
  \/ call_extract_skills
  \/ call_extract_years_of_experience
  \/ call_compute_skill_match
  \/ call_combine_scores

Spec == Init /\ [][Next]_vars

(***************************************************************************)
(* Properties.                                                             *)
(***************************************************************************)
Analyzed == op = "analyze_resume" /\ pc = "returned"

IsScenario ==
  /\ op = "analyze_resume"
  /\ args.resume_text = ResumeScenario
  /\ args.job_description_text = JobScenario

\* a list in strictly ascending str order (so without duplicates)
Ascending(l) == \A k \in 1..(Len(l) - 1) : StrLess(l[k], l[k + 1])

Abs(x) == IF x < 0 THEN -x ELSE x

\* score (hundredths) is a nearest number of hundredths to
\* 100 * (0.6 * pct / 100 + 0.4 * sim), pct in hundredths, sim = <<num, den>>
IsCombined(score, sim, pct) ==
  2 * Abs(score * 10 * sim[2] - (6 * pct * sim[2] + 4 * 100 * 100 * sim[1])) <= 10 * sim[2]

\* C1 as stated: the end-to-end scenario yields resume skills {python, sql}, job
\* skills {python, sql, aws}, matched {python, sql}, missing {aws}, 66.67 percent,
\* 3 years of experience and notes that mention "aws".
C1_ScenarioAsStated ==
  (IsScenario /\ pc = "returned") =>
    /\ set(ret.resume_profile.skills) = { <<"p","y","t","h","o","n">>, <<"s","q","l">> }
    /\ set(ret.job_profile.required_skills) = { <<"p","y","t","h","o","n">>, <<"s","q","l">>, <<"a","w","s">> }
    /\ set(ret.skills_match.matched_skills) = { <<"p","y","t","h","o","n">>, <<"s","q","l">> }
    /\ set(ret.skills_match.missing_skills) = { <<"a","w","s">> }
    /\ ret.skill_match_percentage = 6667
    /\ ret.resume_profile.years_of_experience = Some(3)
    /\ ret.notes # None /\ Contains(ret.notes[1], <<"a","w","s">>)

\* C1 as amended: the scenario always returns, and the substring matcher also
\* finds "c" and "r" in both texts: resume skills {c, python, r, sql}, job skills
\* {aws, c, python, r, sql}, matched {c, python, r, sql}, missing {aws}, 80.0
\* percent, 3 years of experience and notes that mention "aws".
C1_Scenario ==
  IsScenario =>
    /\ pc # "raised"
    /\ pc = "returned" =>
         /\ ret.resume_profile.skills = << <<"c">>, <<"p","y","t","h","o","n">>, <<"r">>, <<"s","q","l">> >>
         /\ ret.job_profile.required_skills = << <<"a","w","s">>, <<"c">>, <<"p","y","t","h","o","n">>, <<"r">>, <<"s","q","l">> >>
         /\ ret.skills_match.matched_skills = << <<"c">>, <<"p","y","t","h","o","n">>, <<"r">>, <<"s","q","l">> >>
         /\ ret.skills_match.missing_skills = << <<"a","w","s">> >>
         /\ ret.skills_match.extra_resume_skills = <<>>
         /\ ret.skill_match_percentage = 80 * 100
         /\ ret.resume_profile.years_of_experience = Some(3)
         /\ ret.notes # None /\ Contains(ret.notes[1], <<"a","w","s">>)

C1_Witness == IsScenario /\ pc = "returned" /\ ret.skill_match_percentage = 80 * 100

\* C2 as stated: run_analysis raises no exception, whatever the two texts.
C2_NeverRaises == op = "analyze_resume" => pc # "raised"

IsPdfOrDocx(file) ==
  \/ file.format = "pdf" /\ EndsWith(Lower(file.filename), <<".","p","d","f">>)
  \/ file.format = "docx" /\ EndsWith(Lower(file.filename), <<".","d","o","c","x">>)

FileText(file) ==
  IF file.format = "pdf" THEN extract_text_from_pdf(file).value
  ELSE extract_text_from_docx(file).value

\* C3 as stated: an uploaded PDF or DOCX resume is answered with its text and the
\* analysis of that text against the job description, never with the failure
\* response "Failed to extract resume text: ...".
C3_UploadIsAnalyzed ==
  (op = "upload_and_analyze_resume" /\ pc = "returned" /\ IsPdfOrDocx(args.file)) =>
    /\ ret.extracted_text = FileText(args.file)
    /\ ~HasAt(ret.notes[1], 1, <<"F","a","i","l","e","d"," ","t","o"," ","e","x","t","r","a","c",
                                 "t"," ","r","e","s","u","m","e"," ","t","e","x","t",":"," ">>)
    /\ \E out \in run_analysis(FileText(args.file), args.job_description_text) :
         /\ out.exc = ""
         /\ ret = [f \in DOMAIN ret |->
                     IF f = "extracted_text" THEN FileText(args.file) ELSE out.value[f]]

\* C4: compute_skill_match(A, B) returns set(A) \cap set(B), set(B) \ set(A) and
\* set(A) \ set(B), each as a list in ascending order without duplicates, for
\* lists with duplicates, in any order, and empty.
C4_SkillMatch ==
  (op = "compute_skill_match" /\ pc = "returned") =>
    /\ set(ret.matched_skills) = set(args.resume_skills) \cap set(args.job_skills)
    /\ set(ret.missing_skills) = set(args.job_skills) \ set(args.resume_skills)
    /\ set(ret.extra_resume_skills) = set(args.resume_skills) \ set(args.job_skills)
    /\ Ascending(ret.matched_skills)
    /\ Ascending(ret.missing_skills)
    /\ Ascending(ret.extra_resume_skills)

\* a resume list out of order and with a duplicate, two extra skills, one missing
C4_Witness ==
  /\ op = "compute_skill_match" /\ pc = "returned"
  /\ Len(args.resume_skills) > Cardinality(set(args.resume_skills))
  /\ StrLess(args.resume_skills[2], args.resume_skills[1])
  /\ Len(ret.extra_resume_skills) = 2
  /\ Len(ret.missing_skills) = 1

\* C5: in run_analysis skill_match_percentage is 0.0 when the job description
\* yields no skill, whatever the resume, and otherwise 100 * |matched| / |job
\* skills| rounded to 2 decimals (|job| = 4 and |matched| = 2 give 50.0).
C5_SkillPercentage ==
  Analyzed =>
    LET n == Len(ret.job_profile.required_skills)
        m == Len(ret.skills_match.matched_skills)
        p == ret.skill_match_percentage
    IN  /\ n = 0 => p = 0
        /\ n > 0 => 2 * Abs(p * n - 100 * 100 * m) <= n
        /\ (n = 4 /\ m = 2) => p = 50 * 100

\* no job skill, a resume with skills
C5_Witness ==
  /\ Analyzed
  /\ ret.job_profile.required_skills = <<>>
  /\ ret.resume_profile.skills # <<>>
  /\ ret.skill_match_percentage = 0

\* C6: combine_scores returns round(100 * (0.6 * pct / 100 + 0.4 * sim), 2);
\* combine_scores(0.5, 50.0) is 50.0; run_analysis combines the unrounded
\* similarity, not the 3-decimal one it reports.
C6_Combine ==
  /\ (op = "combine_scores" /\ pc = "returned") =>
       /\ IsCombined(ret, args.text_sim, args.skill_match_pct)
       /\ (args.text_sim = <<1, 2>> /\ args.skill_match_pct = 50 * 100) => ret = 50 * 100
  /\ Analyzed => IsCombined(ret.overall_match_score, frame.text_sim, ret.skill_match_percentage)

\* an analysis whose score is not the combination of the similarity it reports
C6_Witness ==
  /\ Analyzed
  /\ ~IsCombined(ret.overall_match_score, <<ret.text_similarity_score, 1000>>,
                 ret.skill_match_percentage)

\* C7: the notes of run_analysis are present; they are the missing-skills
\* sentence (the missing skills in ascending order, comma-joined) exactly when a
\* skill is missing, then one message: low under 50, decent from 50 and under 75,
\* strong from 75.
C7_Notes ==
  Analyzed =>
    LET missing  == ret.skills_match.missing_skills
        score    == ret.overall_match_score
        sentence == IF missing = <<>> THEN <<>>
                    ELSE MissingPrefix \o join(<<","," ">>, missing) \o <<"."," ">>
        message  == CASE score < 50 * 100 -> LowNote
                      [] score >= 50 * 100 /\ score < 75 * 100 -> DecentNote
                      [] score >= 75 * 100 -> StrongNote
    IN  /\ ret.notes # None
        /\ ret.notes[1] = sentence \o message
        /\ Ascending(missing)

\* a score of exactly 50.0, with a missing skill
C7_Witness ==
  /\ Analyzed
  /\ ret.overall_match_score = 50 * 100
  /\ ret.skills_match.missing_skills # <<>>

\* the values of the matches of the year pattern at i, as the claim words it:
\* digits, then (with gap) optional whitespace, an optional "+", optional
\* whitespace, and the word
YearValuesAt(s, i, gap) ==
  {IF nd = 2 THEN 10 * DigitVal(s[i]) + DigitVal(s[i + 1]) ELSE DigitVal(s[i]) :
     nd \in {n \in 1..2 :
               /\ i + n - 1 <= Len(s)
               /\ \A k \in i..(i + n - 1) : IsDigit(s[k])
               /\ \E g \in (IF gap THEN 0..Len(s) ELSE {0}), plus \in 0..1, h \in 0..Len(s) :
                    /\ i + n + g + plus + h - 1 <= Len(s)
                    /\ \A k \in (i + n)..(i + n + g - 1) : s[k] \in Whitespace
                    /\ plus = 1 => s[i + n + g] = "+"
                    /\ \A k \in (i + n + g + plus)..(i + n + g + plus + h - 1) :
                         s[k] \in Whitespace
                    /\ \E w \in { <<"y","e","a","r","s">>, <<"y","e","a","r">>, <<"y","r","s">> } :
                         HasAt(s, i + n + g + plus + h, w)}}

YearValues(text, gap) ==
  UNION {YearValuesAt(Lower(clean_text(text)), i, gap) :
           i \in 1..Len(Lower(clean_text(text)))}

YearsClaimed(text, gap) ==
  IF YearValues(text, gap) = {} THEN None ELSE Some(Max(YearValues(text, gap)))

\* C8 as stated: extract_years_of_experience returns the largest value among the
\* matches of: one or two digits, an optional "+", optional whitespace, and one
\* of "years", "year", "yrs"; absent without a match.
C8_YearsAsStated ==
  (op = "extract_years_of_experience" /\ pc = "returned") =>
    ret = YearsClaimed(args.text, FALSE)

\* C8 as amended: the pattern also takes whitespace between the digits and the
\* "+": one or two digits, optional whitespace, an optional "+", optional
\* whitespace, and one of "years", "year", "yrs".
C8_Years ==
  (op = "extract_years_of_experience" /\ pc = "returned") =>
    /\ ret = YearsClaimed(args.text, TRUE)
    /\ args.text = <<>> => ret = None
    /\ args.text = YearsScenario => ret = Some(5)

\* several figures, the largest not the first
C8_Witness ==
  /\ op = "extract_years_of_experience" /\ pc = "returned"
  /\ Cardinality(YearValues(args.text, TRUE)) >= 2
  /\ ret = Some(5)
  /\ HasAt(Lower(clean_text(args.text)), 1, <<"2"," ","y","e","a","r","s">>)

\* C9: every response of run_analysis and of upload_and_analyze_resume has
\* overall_match_score and skill_match_percentage in [0, 100] and
\* text_similarity_score in [0, 1].
C9_Ranges ==
  (op \in {"analyze_resume", "upload_and_analyze_resume"} /\ pc = "returned") =>
    /\ ret.overall_match_score \in 0..(100 * 100)
    /\ ret.skill_match_percentage \in 0..(100 * 100)
    /\ ret.text_similarity_score \in 0..1000

\* a full match: every score at its upper end
C9_Witness ==
  /\ Analyzed
  /\ ret.overall_match_score = 100 * 100
  /\ ret.skill_match_percentage = 100 * 100
  /\ ret.text_similarity_score = 1000

\* C10: extract_skills returns, ascending and without duplicates, exactly the
\* vocabulary entries that are substrings of the normalized lowercased text; the
\* token pass adds nothing; the result is a subset of the vocabulary; empty text
\* gives the empty list.
C10_Skills ==
  (op = "extract_skills" /\ pc = "returned") =>
    LET text_norm == Lower(clean_text(args.text))
    IN  /\ set(ret) = {skill \in SKILL_SET : Contains(text_norm, skill)}
        /\ Ascending(ret)
        /\ set(ret) \subseteq SKILL_SET
        /\ \A skill \in SKILL_SET \cap nlp_tokens(text_norm) : Contains(text_norm, skill)
        /\ args.text = <<>> => ret = <<>>

\* "r" found inside "terraform", next to a phrase found across a tab and a newline
C10_Witness ==
  /\ op = "extract_skills" /\ pc = "returned"
  /\ Contains(Lower(args.text), <<"t","e","r","r","a","f","o","r","m">>)
  /\ <<"r">> \notin nlp_tokens(Lower(clean_text(args.text)))
  /\ ret = << <<"r">> >>

====
